---- MODULE Spec2Model ----
(***************************************************************************)
(* A model of V1DetectionsToCSV.py: the sliding-window RateLimiter, the    *)
(* page loop of each worker thread (process_interval / process_detections  *)
(* / _get_next_params), the CSV merge writer (_write_to_csv) and the       *)
(* coordinator (main).                                                     *)
(*                                                                         *)
(* Strings are sequences of character codes (naturals), compared as Python *)
(* compares str values; field names are TLA+ strings.                      *)
(***************************************************************************)
EXTENDS Integers, Sequences, FiniteSets, TLC

----------------------------------------------------------------------------
(* Bounds of the model *)

\* number of worker threads of the run (config.num_threads)
NumThreads == 2
\* page size of the run (config.results_per_call, the 'top' parameter)
ResultsPerCall == 2
\* the positive value of config.max_results tried (0, "no cap", is tried too)
MaxResults == 2
\* most records the API holds for one sub-range, in a run whose records are
\* all alike and in a run whose records differ
MaxSupply == 3
MaxBatches == 2
\* the rate limits of the run (config.rate_limit_minute, config.rate_limit_hour)
RunMinuteLimit == 1
RunHourLimit == 2
\* the interval computation: latest start, longest window, most workers tried
MaxStart == 2
MaxSpan == 7
MaxParts == 4
\* the limiter on its own: calls admitted, clock ticks taken, largest limit tried
MaxCalls == 4
MaxTicks == 3
MaxLimit == 2
\* the merge on its own: most records in one of the two batches tried
MaxBatchLen == 2

Workers == 1..NumThreads

----------------------------------------------------------------------------
(* Strings *)

\* character codes: a digit is its own code, then ',' and two letters
Char(c) == CASE c = "," -> 10 [] c = "B" -> 11 [] c = "L" -> 12

RECURSIVE StrLeq(_, _)
\* Python's a <= b on str: lexicographic by code point, a prefix is smaller
StrLeq(a, b) ==
    IF a = << >> THEN TRUE
    ELSE IF b = << >> THEN FALSE
    ELSE IF Head(a) < Head(b) THEN TRUE
    ELSE IF Head(a) > Head(b) THEN FALSE
    ELSE StrLeq(Tail(a), Tail(b))

----------------------------------------------------------------------------
(* The interval computation of main() *)

\* a slip the partition claim must catch: the last interval keeps its computed end
IntervalNoRemainder(start, end, n, i) ==
    LET interval_seconds == (end - start) \div n
        interval_start == start + i * interval_seconds
    IN  <<interval_start, interval_start + interval_seconds>>

\* one interval of the loop of main(): whole seconds since an epoch
Interval(start, end, n, i) ==
    LET interval_seconds == (end - start) \div n
        interval_start == start + i * interval_seconds
        interval_end == interval_start + interval_seconds
    IN  IF interval_end > end \/ i = n - 1
        THEN <<interval_start, end>>
        ELSE <<interval_start, interval_end>>

Intervals(start, end, n) ==
    [k \in 1..n |-> Interval(start, end, n, k - 1)]

----------------------------------------------------------------------------
(* Records: API items, flattened items, CSV rows *)

SortKey == "eventTimeDT"

\* VisionOneAPI.LIST_FIELDS
LIST_FIELDS == {"endpointIp", "interestedIp", "act", "dst", "src"}

\* the field names of the model in the order sorted() gives them
FieldOrder == <<"act", "eventTimeDT", "src">>

Range(s) == {s[i] : i \in 1..Len(s)}

\* JSON values: null, a string, a list of strings and nulls
RawNone == [tag |-> "none"]
RawStr(s) == [tag |-> "str", v |-> s]
RawList(l) == [tag |-> "list", v |-> l]

NotNone(x) == x.tag # "none"

RECURSIVE JoinStrs(_)
\* ','.join(...) of a list of strings
JoinStrs(l) ==
    IF l = << >> THEN << >>
    ELSE IF Len(l) = 1 THEN Head(l).v
    ELSE Head(l).v \o <<Char(",")>> \o JoinStrs(Tail(l))

\* ','.join(str(x) for x in value if x is not None)
Join(l) == JoinStrs(SelectSeq(l, NotNone))

\* DetectionProcessor.flatten_dict
flatten_dict(item) ==
    [key \in DOMAIN item |->
        IF item[key].tag = "none" THEN << >>
        ELSE IF key \in LIST_FIELDS /\ item[key].tag = "list" THEN Join(item[key].v)
        ELSE item[key].v]

\* the records the API may serve: fixed-width, zero-padded event times
Catalog ==
    << [eventTimeDT |-> RawStr(<<1, 0>>),
        act |-> RawList(<<RawStr(<<Char("B")>>), RawNone, RawStr(<<Char("L")>>)>>)],
       [eventTimeDT |-> RawStr(<<0, 1>>), src |-> RawNone],
       [eventTimeDT |-> RawStr(<<1, 0>>), src |-> RawStr(<<Char("L")>>)] >>

CatalogIds == 1..Len(Catalog)

\* x.get('eventTimeDT')
KeyOf(row) == row[SortKey]

\* sorted(d.keys())
sorted(keys) == 
    LET F(i) == FieldOrder[i]
        idx == {i \in 1..Len(FieldOrder) : F(i) \in keys}
        RECURSIVE Build(_)
        Build(S) == IF S = {} THEN << >>
                    ELSE LET m == CHOOSE x \in S : \A y \in S : x <= y
                         IN  <<F(m)>> \o Build(S \ {m})
    IN  Build(idx)

RECURSIVE InsertSorted(_, _)
\* x goes behind every element whose key is not greater: the sort is stable
InsertSorted(x, s) ==
    IF s = << >> THEN <<x>>
    ELSE IF StrLeq(KeyOf(Head(s)), KeyOf(x)) THEN <<Head(s)>> \o InsertSorted(x, Tail(s))
    ELSE <<x>> \o s

\* a slip the ordering claim must catch: the batch is merged as it arrived
SortItemsSkipped(s) == s

RECURSIVE SortItems(_)
\* items.sort(key=lambda x: x.get('eventTimeDT'))
SortItems(s) ==
    IF s = << >> THEN << >>
    ELSE InsertSorted(s[Len(s)], SortItems(SubSeq(s, 1, Len(s) - 1)))

RECURSIVE MergeRowsNewFirst(_, _)
\* a slip the tie rule must catch: on equal keys the new item goes first
MergeRowsNewFirst(existing_rows, items) ==
    IF existing_rows = << >> THEN items
    ELSE IF items = << >> THEN existing_rows
    ELSE IF ~StrLeq(KeyOf(Head(items)), KeyOf(Head(existing_rows)))
         THEN <<Head(existing_rows)>> \o MergeRowsNewFirst(Tail(existing_rows), items)
         ELSE <<Head(items)>> \o MergeRowsNewFirst(existing_rows, Tail(items))

RECURSIVE MergeRows(_, _)
\* the two-pointer loop of _write_to_csv and the two extend() calls after it
MergeRows(existing_rows, items) ==
    IF existing_rows = << >> THEN items
    ELSE IF items = << >> THEN existing_rows
    ELSE IF StrLeq(KeyOf(Head(existing_rows)), KeyOf(Head(items)))
         THEN <<Head(existing_rows)>> \o MergeRows(Tail(existing_rows), items)
         ELSE <<Head(items)>> \o MergeRows(existing_rows, Tail(items))

NoFile == [exists |-> FALSE, header |-> << >>, rows |-> << >>]

\* csv.DictWriter(fieldnames, extrasaction='ignore'): writeheader, writerows.
\* A key outside fieldnames is dropped, a missing one is written as ''.
WriteCsv(fieldnames, rows) ==
    [exists |-> TRUE,
     header |-> fieldnames,
     rows |-> [i \in 1..Len(rows) |->
                 [f \in Range(fieldnames) |->
                     IF f \in DOMAIN rows[i] THEN rows[i][f] ELSE << >>]]]

\* list(csv.DictReader(f)): one dict per row, keyed by the header
ReadCsv(file) == file.rows

\* the fieldnames argument of the DictWriter in the branch 'file_exists'
MergedFieldnames(fieldnames, merged_rows) ==
    IF fieldnames # << >> THEN fieldnames ELSE sorted(DOMAIN merged_rows[1])

\* _write_to_csv as one call on the file, run alone: st is the output file and
\* self.fieldnames before the call, the result is both after it
write_to_csv(st, batch) ==
    IF batch = << >> THEN st
    ELSE LET sorted_items == SortItems(batch)
         IN  IF st.file.exists
             THEN LET merged == MergeRows(ReadCsv(st.file), sorted_items)
                  IN  [file |-> WriteCsv(MergedFieldnames(st.fieldnames, merged), merged),
                       fieldnames |-> st.fieldnames]
             ELSE [file |-> WriteCsv(sorted(DOMAIN sorted_items[1]), sorted_items),
                   fieldnames |-> sorted(DOMAIN sorted_items[1])]

----------------------------------------------------------------------------
(* State *)

VARIABLES
    \* main(): its position, the exit status, the configuration it loaded
    main_pc, exit_code, config, intervals,
    \* RateLimiter
    minute_requests, hour_requests, rl_lock,
    \* DetectionProcessor
    total_detections, max_detections_reached, request_count,
    counter_lock, output_lock, fieldnames,
    \* the file system: config.output_file and its sibling '.tmp'
    output_file, temp_file,
    \* one worker thread per interval: position and locals
    pc, params, data, items, file_exists, merged_rows, current_time, wait_time,
    \* the environment: the clock, the records the API holds for each interval,
    \* whether the process has been killed
    now, oversleep, supply, catalog, crashed,
    \* history: the file at process start, the batches whose merge has landed,
    \* every timestamp the limiter recorded, the pages each worker merged after
    \* the limit flag was set, the clock ticks taken
    file0, landed, admitted, after_flag, ticks,
    \* two batches merged alone, in both orders and as one batch
    trial

mainVars == <<main_pc, exit_code, config, intervals>>
limiterVars == <<minute_requests, hour_requests, rl_lock, now, admitted, ticks>>
processorVars == <<total_detections, max_detections_reached, request_count,
                   counter_lock, output_lock, fieldnames>>
fileVars == <<output_file, temp_file>>
threadVars == <<pc, params, data, items, file_exists, merged_rows,
                current_time, wait_time>>
envVars == <<oversleep, supply, catalog, crashed, file0, landed, after_flag, trial>>

vars == <<mainVars, limiterVars, processorVars, fileVars, threadVars, envVars>>

\* a lock is 0 when free, else the worker that holds it
Free == 0

\* a response: data['items'], as the catalog numbers of its records, and
\* data['nextLink'], as whether there is one and the skipToken of its query
\* string (0: it has none)
NoLink == [present |-> FALSE, skipToken |-> 0]
NoData == [ids |-> << >>, nextLink |-> NoLink]

Max(a, b) == IF a >= b THEN a ELSE b
Min(a, b) == IF a <= b THEN a ELSE b

----------------------------------------------------------------------------
(* RateLimiter.wait *)

MinuteWindow == 60
HourWindow == 3600

RECURSIVE Evict(_, _, _)
\* while q and current_time - q[0] > window: q.popleft()
Evict(q, t, window) ==
    IF q # << >> /\ t - Head(q) > window THEN Evict(Tail(q), t, window) ELSE q

\* "Calculate wait time if limits are reached"; q[0] of an empty deque raises
WaitTime(mq, hq, t, minute_limit, hour_limit) ==
    LET w1 == IF Len(mq) >= minute_limit
              THEN Max(0, MinuteWindow - (t - Head(mq))) ELSE 0
        w2 == IF Len(hq) >= hour_limit
              THEN Max(w1, HourWindow - (t - Head(hq))) ELSE w1
    IN  w2

\* lines 106-109 with a limit that an empty deque already reaches (a limit of
\* zero or less): q[0] raises IndexError
WaitRaises(mq, hq, minute_limit, hour_limit) ==
    \/ (Len(mq) >= minute_limit /\ mq = << >>)
    \/ (Len(hq) >= hour_limit /\ hq = << >>)

\* lines 93-110 and, when there is nothing to wait for, 120-122; an exception
\* leaves the with block, which releases the lock, and since wait() is called
\* outside the try of get_detections it ends the worker through line 292
WaitEnter(w) ==
    /\ ~crashed
    /\ pc[w] = "wait"
    /\ rl_lock = Free
    /\ LET t == now
           mq == Evict(minute_requests, t, MinuteWindow)
           hq == Evict(hour_requests, t, HourWindow)
           raises == WaitRaises(mq, hq, config.rate_limit_minute, config.rate_limit_hour)
           wt == IF raises THEN 0
                 ELSE WaitTime(mq, hq, t, config.rate_limit_minute, config.rate_limit_hour)
       IN  /\ current_time' = [current_time EXCEPT ![w] = t]
           /\ wait_time' = [wait_time EXCEPT ![w] = wt]
           /\ IF raises
              THEN /\ minute_requests' = mq
                   /\ hour_requests' = hq
                   /\ rl_lock' = Free
                   /\ pc' = [pc EXCEPT ![w] = "failed"]
                   /\ admitted' = admitted
              ELSE IF wt > 0
              THEN /\ minute_requests' = mq
                   /\ hour_requests' = hq
                   /\ rl_lock' = w
                   /\ pc' = [pc EXCEPT ![w] = "sleep"]
                   /\ admitted' = admitted
              ELSE /\ minute_requests' = Append(mq, t)
                   /\ hour_requests' = Append(hq, t)
                   /\ rl_lock' = Free
                   /\ pc' = [pc EXCEPT ![w] = "get"]
                   /\ admitted' = Append(admitted, t)
    /\ UNCHANGED <<mainVars, processorVars, fileVars, envVars, now, ticks,
                   params, data, items, file_exists, merged_rows>>

\* a slip the limiter must not make: the lock is still held when wait() returns
WaitSleepHoldsLock(w) ==
    /\ ~crashed
    /\ pc[w] = "sleep"
    /\ \E over \in oversleep :
          LET t == Max(now, current_time[w] + wait_time[w]) + over
          IN  /\ now' = t
              /\ current_time' = [current_time EXCEPT ![w] = t]
              /\ minute_requests' = Append(Evict(minute_requests, t, MinuteWindow), t)
              /\ hour_requests' = Append(Evict(hour_requests, t, HourWindow), t)
              /\ admitted' = Append(admitted, t)
    /\ pc' = [pc EXCEPT ![w] = "get"]
    /\ UNCHANGED <<mainVars, processorVars, fileVars, envVars, ticks, rl_lock,
                   params, data, items, file_exists, merged_rows, wait_time>>

\* lines 112-122: time.sleep(wait_time) returns no earlier than asked, the
\* deques are cleaned again, the request is recorded, the lock is released
WaitSleep(w) ==
    /\ ~crashed
    /\ pc[w] = "sleep"
    /\ \E over \in oversleep :
          LET t == Max(now, current_time[w] + wait_time[w]) + over
              mq == Evict(minute_requests, t, MinuteWindow)
              hq == Evict(hour_requests, t, HourWindow)
          IN  /\ now' = t
              /\ current_time' = [current_time EXCEPT ![w] = t]
              /\ minute_requests' = Append(mq, t)
              /\ hour_requests' = Append(hq, t)
              /\ admitted' = Append(admitted, t)
    /\ rl_lock' = Free
    /\ pc' = [pc EXCEPT ![w] = "get"]
    /\ UNCHANGED <<mainVars, processorVars, fileVars, envVars, ticks,
                   params, data, items, file_exists, merged_rows, wait_time>>

----------------------------------------------------------------------------
(* The worker threads: process_interval, process_detections *)

Terminal == {"done", "failed"}

\* a slip the cooperative stop must not make: the loop ignores the flag
LoopCheckBlind(w) ==
    /\ ~crashed
    /\ pc[w] = "loop"
    /\ pc' = [pc EXCEPT ![w] = "req"]
    /\ UNCHANGED <<mainVars, limiterVars, processorVars, fileVars, envVars,
                   params, data, items, file_exists, merged_rows, current_time, wait_time>>

\* line 343: while not processor.max_detections_reached
LoopCheck(w) ==
    /\ ~crashed
    /\ pc[w] = "loop"
    /\ pc' = [pc EXCEPT ![w] = IF max_detections_reached THEN "done" ELSE "req"]
    /\ UNCHANGED <<mainVars, limiterVars, processorVars, fileVars, envVars,
                   params, data, items, file_exists, merged_rows, current_time, wait_time>>

\* lines 269-271: the request counter, under counter_lock
CountRequest(w) ==
    /\ ~crashed
    /\ pc[w] = "req"
    /\ counter_lock = Free
    /\ request_count' = request_count + 1
    /\ pc' = [pc EXCEPT ![w] = "wait"]
    /\ UNCHANGED <<mainVars, limiterVars, fileVars, envVars,
                   total_detections, max_detections_reached, counter_lock, output_lock,
                   fieldnames,
                   params, data, items, file_exists, merged_rows, current_time, wait_time>>

\* the pages the API may answer with: at most 'top' items, none only when the
\* interval holds no more, a nextLink with a skipToken while more remain
Pages(w) ==
    LET served == params[w]
        rem == supply[w] - served
        sizes == IF rem = 0 THEN {0} ELSE 1..Min(config.results_per_call, rem)
    IN  UNION { { [ids |-> ids,
                   nextLink |-> IF served + k < supply[w]
                                THEN [present |-> TRUE, skipToken |-> served + k]
                                ELSE NoLink] : ids \in [1..k -> catalog] }
                : k \in sizes }

\* lines 155-161 and 276-280: the response arrives; its items are flattened and
\* _write_to_csv sorts them (lines 199-203) before it asks for output_lock
Fetch(w) ==
    /\ ~crashed
    /\ pc[w] = "get"
    /\ \E page \in Pages(w) :
          /\ data' = [data EXCEPT ![w] = [ids |-> page.ids, nextLink |-> page.nextLink]]
          /\ items' = [items EXCEPT ![w] =
                          SortItems([i \in 1..Len(page.ids) |->
                                        flatten_dict(Catalog[page.ids[i]])])]
          /\ pc' = [pc EXCEPT ![w] = IF page.ids = << >> THEN "next" ELSE "lock"]
    /\ UNCHANGED <<mainVars, limiterVars, processorVars, fileVars, envVars,
                   params, file_exists, merged_rows, current_time, wait_time>>

\* a slip failure isolation must exclude: a failing worker stops its siblings
FetchFailCancels(w) ==
    /\ ~crashed
    /\ pc[w] = "get"
    /\ pc' = [pc EXCEPT ![w] = "failed"]
    /\ max_detections_reached' = TRUE
    /\ UNCHANGED <<mainVars, limiterVars, fileVars, envVars,
                   total_detections, request_count, counter_lock, output_lock, fieldnames,
                   params, data, items, file_exists, merged_rows, current_time, wait_time>>

\* lines 162-164 and 290-292: the request raises, process_detections re-raises,
\* the exception ends process_interval and is kept in the thread's future
FetchFail(w) ==
    /\ ~crashed
    /\ pc[w] = "get"
    /\ pc' = [pc EXCEPT ![w] = "failed"]
    /\ UNCHANGED <<mainVars, limiterVars, processorVars, fileVars, envVars,
                   params, data, items, file_exists, merged_rows, current_time, wait_time>>

----------------------------------------------------------------------------
(* DetectionProcessor._write_to_csv *)

\* a slip the merge must not make: the critical section is entered unlocked
AcquireOutputUnlocked(w) ==
    /\ ~crashed
    /\ pc[w] = "lock"
    /\ output_lock' = w
    /\ pc' = [pc EXCEPT ![w] = "read"]
    /\ UNCHANGED <<mainVars, limiterVars, fileVars, envVars,
                   total_detections, max_detections_reached, request_count,
                   counter_lock, fieldnames,
                   params, data, items, file_exists, merged_rows, current_time, wait_time>>

\* line 205: with self.output_lock
AcquireOutput(w) ==
    /\ ~crashed
    /\ pc[w] = "lock"
    /\ output_lock = Free
    /\ output_lock' = w
    /\ pc' = [pc EXCEPT ![w] = "read"]
    /\ UNCHANGED <<mainVars, limiterVars, fileVars, envVars,
                   total_detections, max_detections_reached, request_count,
                   counter_lock, fieldnames,
                   params, data, items, file_exists, merged_rows, current_time, wait_time>>

\* lines 206-228 and 238: the existing rows are read and merged with the batch,
\* or, when there is no file, fieldnames becomes the keys of the first item
ReadMerge(w) ==
    /\ ~crashed
    /\ pc[w] = "read"
    /\ file_exists' = [file_exists EXCEPT ![w] = output_file.exists]
    /\ IF output_file.exists
       THEN /\ merged_rows' = [merged_rows EXCEPT ![w] =
                                  MergeRows(ReadCsv(output_file), items[w])]
            /\ fieldnames' = fieldnames
       ELSE /\ merged_rows' = [merged_rows EXCEPT ![w] = items[w]]
            /\ fieldnames' = sorted(DOMAIN items[w][1])
    /\ pc' = [pc EXCEPT ![w] = "temp"]
    /\ UNCHANGED <<mainVars, limiterVars, fileVars, envVars,
                   total_detections, max_detections_reached, request_count,
                   counter_lock, output_lock,
                   params, data, items, current_time, wait_time>>

\* what lines 230-235 or 239-244 write to the temporary file
TempContent(w) ==
    IF file_exists[w]
    THEN WriteCsv(MergedFieldnames(fieldnames, merged_rows[w]), merged_rows[w])
    ELSE WriteCsv(fieldnames, items[w])

\* a slip crash safety must exclude: the rows are written over the output file
WriteInPlace(w) ==
    /\ ~crashed
    /\ pc[w] = "temp"
    /\ output_file' = TempContent(w)
    /\ temp_file' = TempContent(w)
    /\ pc' = [pc EXCEPT ![w] = "replace"]
    /\ UNCHANGED <<mainVars, limiterVars, processorVars, envVars,
                   params, data, items, file_exists, merged_rows, current_time, wait_time>>

\* lines 230-235 and 239-244: the temporary file is written in full
WriteTemp(w) ==
    /\ ~crashed
    /\ pc[w] = "temp"
    /\ temp_file' = TempContent(w)
    /\ output_file' = output_file
    /\ pc' = [pc EXCEPT ![w] = "replace"]
    /\ UNCHANGED <<mainVars, limiterVars, processorVars, envVars,
                   params, data, items, file_exists, merged_rows, current_time, wait_time>>

\* a slip the failing merge must not make: the error leaves output_lock held
MergeFailHoldsLock(w) ==
    /\ ~crashed
    /\ pc[w] \in {"read", "temp", "replace"}
    /\ pc' = [pc EXCEPT ![w] = "failed"]
    /\ UNCHANGED <<mainVars, limiterVars, processorVars, fileVars, envVars,
                   params, data, items, file_exists, merged_rows, current_time, wait_time>>

\* an I/O error in the critical section (open or read of the output file, a
\* write that stops after some rows, the replace): the with statement releases
\* output_lock and the exception ends the worker as in FetchFail
MergeFail(w) ==
    /\ ~crashed
    /\ pc[w] \in {"read", "temp", "replace"}
    /\ IF pc[w] = "temp"
       THEN \E k \in 0..(Len(TempContent(w).rows) - 1) :
               temp_file' = [TempContent(w) EXCEPT
                                !.rows = SubSeq(TempContent(w).rows, 1, k)]
       ELSE temp_file' = temp_file
    /\ output_lock' = Free
    /\ pc' = [pc EXCEPT ![w] = "failed"]
    /\ UNCHANGED <<mainVars, limiterVars, envVars, output_file,
                   total_detections, max_detections_reached, request_count,
                   counter_lock, fieldnames,
                   params, data, items, file_exists, merged_rows, current_time, wait_time>>

\* a slip termination must exclude: the lock is still held after the replace
ReplaceHoldsLock(w) ==
    /\ ~crashed
    /\ pc[w] = "replace"
    /\ temp_file.exists
    /\ output_file' = temp_file
    /\ temp_file' = NoFile
    /\ pc' = [pc EXCEPT ![w] = "count"]
    /\ landed' = [i \in CatalogIds |->
                      landed[i] + Cardinality({j \in 1..Len(data[w].ids) :
                                                  data[w].ids[j] = i})]
    /\ after_flag' = [after_flag EXCEPT ![w] =
                         IF max_detections_reached THEN @ + 1 ELSE @]
    /\ UNCHANGED <<mainVars, limiterVars, processorVars,
                   oversleep, supply, catalog, crashed, file0, trial,
                   params, data, items, file_exists, merged_rows, current_time, wait_time>>

\* line 247: os.replace(temp_file, output_file), then the lock is released;
\* without a temporary file the call raises
Replace(w) ==
    /\ ~crashed
    /\ pc[w] = "replace"
    /\ IF temp_file.exists
       THEN /\ output_file' = temp_file
            /\ temp_file' = NoFile
            /\ pc' = [pc EXCEPT ![w] = "count"]
            /\ landed' = [i \in CatalogIds |->
                              landed[i] + Cardinality({j \in 1..Len(data[w].ids) :
                                                          data[w].ids[j] = i})]
            /\ after_flag' = [after_flag EXCEPT ![w] =
                                 IF max_detections_reached THEN @ + 1 ELSE @]
       ELSE /\ pc' = [pc EXCEPT ![w] = "failed"]
            /\ UNCHANGED <<fileVars, landed, after_flag>>
    /\ output_lock' = Free
    /\ UNCHANGED <<mainVars, limiterVars, oversleep, supply, catalog, crashed, file0,
                   trial, total_detections, max_detections_reached, request_count,
                   counter_lock, fieldnames,
                   params, data, items, file_exists, merged_rows, current_time, wait_time>>

----------------------------------------------------------------------------
(* process_detections after the merge, _get_next_params *)

\* a slip the accounting must not make: the page size is counted, not the items
CountDetectionsPageSize(w) ==
    /\ ~crashed
    /\ pc[w] = "count"
    /\ counter_lock = Free
    /\ counter_lock' = w
    /\ total_detections' = total_detections + config.results_per_call
    /\ pc' = [pc EXCEPT ![w] = "flag"]
    /\ UNCHANGED <<mainVars, limiterVars, fileVars, envVars,
                   max_detections_reached, request_count, output_lock, fieldnames,
                   params, data, items, file_exists, merged_rows, current_time, wait_time>>

\* lines 282-283: counter_lock is taken and the page is counted
CountDetections(w) ==
    /\ ~crashed
    /\ pc[w] = "count"
    /\ counter_lock = Free
    /\ counter_lock' = w
    /\ total_detections' = total_detections + Len(data[w].ids)
    /\ pc' = [pc EXCEPT ![w] = "flag"]
    /\ UNCHANGED <<mainVars, limiterVars, fileVars, envVars,
                   max_detections_reached, request_count, output_lock, fieldnames,
                   params, data, items, file_exists, merged_rows, current_time, wait_time>>

\* a slip the result cap must not make: the flag is never raised
CheckLimitNever(w) ==
    /\ ~crashed
    /\ pc[w] = "flag"
    /\ pc' = [pc EXCEPT ![w] = "next"]
    /\ counter_lock' = Free
    /\ UNCHANGED <<mainVars, limiterVars, fileVars, envVars,
                   total_detections, max_detections_reached, request_count,
                   output_lock, fieldnames,
                   params, data, items, file_exists, merged_rows, current_time, wait_time>>

\* a slip the lock discipline must exclude: counter_lock is kept on return
CheckLimitHoldsLock(w) ==
    /\ ~crashed
    /\ pc[w] = "flag"
    /\ IF config.max_results # 0 /\ total_detections >= config.max_results
       THEN /\ max_detections_reached' = TRUE
            /\ pc' = [pc EXCEPT ![w] = "done"]
       ELSE /\ max_detections_reached' = max_detections_reached
            /\ pc' = [pc EXCEPT ![w] = "next"]
    /\ UNCHANGED <<mainVars, limiterVars, fileVars, envVars,
                   total_detections, request_count, counter_lock, output_lock, fieldnames,
                   params, data, items, file_exists, merged_rows, current_time, wait_time>>

\* lines 285-287: at or over max_results the flag is raised and None returned,
\* which ends the loop of process_interval; the lock is released either way
CheckLimit(w) ==
    /\ ~crashed
    /\ pc[w] = "flag"
    /\ IF config.max_results # 0 /\ total_detections >= config.max_results
       THEN /\ max_detections_reached' = TRUE
            /\ pc' = [pc EXCEPT ![w] = "done"]
       ELSE /\ max_detections_reached' = max_detections_reached
            /\ pc' = [pc EXCEPT ![w] = "next"]
    /\ counter_lock' = Free
    /\ UNCHANGED <<mainVars, limiterVars, fileVars, envVars,
                   total_detections, request_count, output_lock, fieldnames,
                   params, data, items, file_exists, merged_rows, current_time, wait_time>>

\* _get_next_params: the new params, or None
get_next_params(nextLink, flag, current_params) ==
    IF nextLink.present /\ ~flag
    THEN IF nextLink.skipToken # 0 THEN nextLink.skipToken ELSE -1
    ELSE -1

\* lines 289 and 345-347: None ends the loop, else the loop goes on with the
\* new params
NextParams(w) ==
    /\ ~crashed
    /\ pc[w] = "next"
    /\ LET next_params == get_next_params(data[w].nextLink, max_detections_reached,
                                          params[w])
       IN  IF next_params = -1
           THEN /\ pc' = [pc EXCEPT ![w] = "done"]
                /\ params' = params
           ELSE /\ pc' = [pc EXCEPT ![w] = "loop"]
                /\ params' = [params EXCEPT ![w] = next_params]
    /\ UNCHANGED <<mainVars, limiterVars, processorVars, fileVars, envVars,
                   data, items, file_exists, merged_rows, current_time, wait_time>>

\* the process is killed
Crash ==
    /\ ~crashed
    /\ main_pc \in {"submit", "collect"}
    /\ crashed' = TRUE
    /\ UNCHANGED <<mainVars, limiterVars, processorVars, fileVars, threadVars,
                   oversleep, supply, catalog, file0, landed, after_flag, trial>>

----------------------------------------------------------------------------
(* main() *)

\* lines 310-333: a missing token raises ValueError, caught at line 363 and
\* turned into sys.exit(1); else the intervals are computed
MainStart ==
    /\ main_pc = "start"
    /\ IF ~config.api_token_ok
       THEN /\ main_pc' = "exit"
            /\ exit_code' = 1
            /\ intervals' = intervals
       ELSE /\ main_pc' = "submit"
            /\ exit_code' = exit_code
            /\ intervals' = Intervals(config.start, config.end, config.num_threads)
    /\ UNCHANGED <<config, limiterVars, processorVars, fileVars,
                   threadVars, envVars>>

\* lines 352-354: the intervals are submitted in order, three seconds apart
Submit(w) ==
    /\ ~crashed
    /\ main_pc = "submit"
    /\ pc[w] = "idle"
    /\ \A v \in Workers : v < w => pc[v] # "idle"
    /\ pc' = [pc EXCEPT ![w] = "loop"]
    /\ main_pc' = IF w = NumThreads THEN "collect" ELSE "submit"
    /\ UNCHANGED <<exit_code, config, intervals, limiterVars,
                   processorVars, fileVars, envVars,
                   params, data, items, file_exists, merged_rows, current_time, wait_time>>

\* lines 355-361 and the end of main(): every future is awaited, the exception
\* of a failed one is logged and dropped, the total is logged, main returns
\* and the interpreter exits with status 0
Finish ==
    /\ ~crashed
    /\ main_pc = "collect"
    /\ \A w \in Workers : pc[w] \in Terminal
    /\ main_pc' = "exit"
    /\ exit_code' = 0
    /\ UNCHANGED <<config, intervals, limiterVars,
                   processorVars, fileVars, threadVars, envVars>>

----------------------------------------------------------------------------
(* The run: main() and its worker threads *)

\* an output file left by an earlier run, sorted by event time
NoTrial == [stage |-> "none"]

EarlierFile ==
    WriteCsv(<<"eventTimeDT", "src">>,
             << [eventTimeDT |-> <<0, 1>>, src |-> <<Char("B")>>],
                [eventTimeDT |-> <<1, 0>>, src |-> << >>] >>)

InitCommon ==
    /\ main_pc = "start"
    /\ exit_code = -1
    /\ intervals = << >>
    /\ minute_requests = << >>
    /\ hour_requests = << >>
    /\ rl_lock = Free
    /\ total_detections = 0
    /\ max_detections_reached = FALSE
    /\ request_count = 0
    /\ counter_lock = Free
    /\ output_lock = Free
    /\ fieldnames = << >>
    /\ temp_file = NoFile
    /\ params = [w \in Workers |-> 0]
    /\ data = [w \in Workers |-> NoData]
    /\ items = [w \in Workers |-> << >>]
    /\ file_exists = [w \in Workers |-> FALSE]
    /\ merged_rows = [w \in Workers |-> << >>]
    /\ current_time = [w \in Workers |-> 0]
    /\ wait_time = [w \in Workers |-> 0]
    /\ now = 0
    /\ crashed = FALSE
    /\ landed = [i \in CatalogIds |-> 0]
    /\ admitted = << >>
    /\ after_flag = [w \in Workers |-> 0]
    /\ ticks = 0

RunConfig(tok, cap) ==
    [api_token_ok |-> tok, max_results |-> cap,
     results_per_call |-> ResultsPerCall, num_threads |-> NumThreads,
     start |-> 0, end |-> MaxSpan,
     rate_limit_minute |-> RunMinuteLimit, rate_limit_hour |-> RunHourLimit]

\* a run whose records are all alike: the page loop, the cap, the failures
Init ==
    /\ InitCommon
    /\ \E tok \in BOOLEAN, cap \in {0, MaxResults} : config = RunConfig(tok, cap)
    /\ pc = [w \in Workers |-> "idle"]
    /\ oversleep = {0}
    /\ catalog = {1}
    /\ supply \in [Workers -> 0..MaxSupply]
    /\ output_file \in {NoFile, EarlierFile}
    /\ file0 = output_file
    /\ trial = NoTrial

\* a run without a cap whose records differ in event time and in fields
InitMerge ==
    /\ InitCommon
    /\ config = RunConfig(TRUE, 0)
    /\ pc = [w \in Workers |-> "idle"]
    /\ oversleep = {0}
    /\ catalog = CatalogIds
    /\ supply \in [Workers -> 0..MaxBatches]
    /\ output_file \in {NoFile, EarlierFile}
    /\ file0 = output_file
    /\ trial = NoTrial

Next ==
    \/ MainStart
    \/ \E w \in Workers : Submit(w)
    \/ \E w \in Workers : LoopCheck(w)
    \/ \E w \in Workers : CountRequest(w)
    \/ \E w \in Workers : WaitEnter(w)
    \/ \E w \in Workers : WaitSleep(w)
    \/ \E w \in Workers : Fetch(w)
    \/ \E w \in Workers : FetchFail(w)
    \/ \E w \in Workers : AcquireOutput(w)
    \/ \E w \in Workers : ReadMerge(w)
    \/ \E w \in Workers : WriteTemp(w)
    \/ \E w \in Workers : MergeFail(w)
    \/ \E w \in Workers : Replace(w)
    \/ \E w \in Workers : CountDetections(w)
    \/ \E w \in Workers : CheckLimit(w)
    \/ \E w \in Workers : NextParams(w)
    \/ Finish
    \/ Crash

Spec == Init /\ [][Next]_vars

SpecMerge == InitMerge /\ [][Next]_vars

----------------------------------------------------------------------------
(* The interval computation on its own: any window, any worker count *)

InitPart ==
    /\ InitCommon
    /\ \E a \in 0..MaxStart, d \in 0..MaxSpan, n \in 1..MaxParts :
          config = [RunConfig(TRUE, 0) EXCEPT !.start = a, !.end = a + d,
                                              !.num_threads = n]
    /\ pc = [w \in Workers |-> "idle"]
    /\ oversleep = {0}
    /\ catalog = {}
    /\ supply = [w \in Workers |-> 0]
    /\ output_file = NoFile
    /\ file0 = output_file
    /\ trial = NoTrial

NextPart == MainStart

SpecPart == InitPart /\ [][NextPart]_vars

----------------------------------------------------------------------------
(* The limiter on its own: threads that call wait() again and again while the
   clock moves; two calls may read the same time *)

TickSteps == {1, 59, 3540}

Tick ==
    /\ ticks < MaxTicks
    /\ \E d \in TickSteps : now' = now + d
    /\ ticks' = ticks + 1
    /\ UNCHANGED <<mainVars, minute_requests, hour_requests, rl_lock, admitted,
                   processorVars, fileVars, threadVars, envVars>>

\* the request that follows wait() is made and the thread calls wait() again
CallAgain(w) ==
    /\ pc[w] = "get"
    /\ Len(admitted) < MaxCalls
    /\ pc' = [pc EXCEPT ![w] = "wait"]
    /\ UNCHANGED <<mainVars, limiterVars, processorVars, fileVars, envVars,
                   params, data, items, file_exists, merged_rows, current_time, wait_time>>

InitRL ==
    /\ InitCommon
    /\ \E m \in 1..MaxLimit, h \in 1..MaxLimit :
          config = [RunConfig(TRUE, 0) EXCEPT !.rate_limit_minute = m,
                                              !.rate_limit_hour = h + 1]
    /\ pc = [w \in Workers |-> "wait"]
    /\ oversleep = {0, 1}
    /\ catalog = {}
    /\ supply = [w \in Workers |-> 0]
    /\ output_file = NoFile
    /\ file0 = output_file
    /\ trial = NoTrial

NextRL ==
    \/ \E w \in Workers : WaitEnter(w)
    \/ \E w \in Workers : WaitSleep(w)
    \/ \E w \in Workers : CallAgain(w)
    \/ Tick

SpecRL == InitRL /\ [][NextRL]_vars

\* a thread inside wait() goes on in the end: it takes the lock when the lock
\* is free, and its sleep ends
WaitStep(w) == WaitEnter(w) \/ WaitSleep(w)

SpecRLLive == InitRL /\ [][NextRL]_vars /\ \A w \in Workers : WF_vars(WaitStep(w))

----------------------------------------------------------------------------
(* The run that is not killed, under fair scheduling: a thread that can take a
   step takes one in the end (a request returns or raises, a sleep ends, a free
   lock is taken), and so does main() *)

\* any step of worker w
Step(w) ==
    \/ LoopCheck(w)
    \/ CountRequest(w)
    \/ WaitEnter(w)
    \/ WaitSleep(w)
    \/ Fetch(w)
    \/ FetchFail(w)
    \/ AcquireOutput(w)
    \/ ReadMerge(w)
    \/ WriteTemp(w)
    \/ MergeFail(w)
    \/ Replace(w)
    \/ CountDetections(w)
    \/ CheckLimit(w)
    \/ NextParams(w)

\* any step of main()
MainStep ==
    \/ MainStart
    \/ \E w \in Workers : Submit(w)
    \/ Finish

InitLive ==
    /\ InitCommon
    /\ \E tok \in BOOLEAN, cap \in {0, MaxResults} : config = RunConfig(tok, cap)
    /\ pc = [w \in Workers |-> "idle"]
    /\ oversleep = {0}
    /\ catalog = {1}
    /\ supply \in [Workers -> 0..MaxSupply]
    /\ output_file = NoFile
    /\ file0 = output_file
    /\ trial = NoTrial

NextLive ==
    \/ MainStep
    \/ \E w \in Workers : Step(w)

Fairness ==
    /\ WF_vars(MainStep)
    /\ \A w \in Workers : WF_vars(Step(w))

SpecLive == InitLive /\ [][NextLive]_vars /\ Fairness

----------------------------------------------------------------------------
(* The run under any rate limits the configuration may hold, zero and negative
   ones included *)

InitCaps ==
    /\ InitCommon
    /\ \E m \in {-1, 0, RunMinuteLimit}, h \in {-1, 0, RunHourLimit} :
          config = [RunConfig(TRUE, 0) EXCEPT !.rate_limit_minute = m,
                                              !.rate_limit_hour = h]
    /\ pc = [w \in Workers |-> "idle"]
    /\ oversleep = {0}
    /\ catalog = {1}
    /\ supply \in [Workers -> 0..1]
    /\ output_file = NoFile
    /\ file0 = output_file
    /\ trial = NoTrial

SpecCaps == InitCaps /\ [][Next]_vars

----------------------------------------------------------------------------
(* The merge on its own: two batches and a starting file; _write_to_csv is
   called for one batch and then the other, in both orders, and once for the
   two batches as one *)

\* the batches a response may carry: up to MaxBatchLen flattened records
Batches ==
    UNION { { [i \in 1..k |-> flatten_dict(Catalog[ids[i]])] : ids \in [1..k -> CatalogIds] }
            : k \in 0..MaxBatchLen }

InitOrder ==
    /\ InitCommon
    /\ config = RunConfig(TRUE, 0)
    /\ pc = [w \in Workers |-> "idle"]
    /\ oversleep = {0}
    /\ catalog = CatalogIds
    /\ supply = [w \in Workers |-> 0]
    /\ output_file \in {NoFile, EarlierFile}
    /\ file0 = output_file
    /\ \E a \in Batches, b \in Batches :
          LET st == [file |-> output_file, fieldnames |-> fieldnames]
          IN  trial = [stage |-> "start", a |-> a, b |-> b,
                       ab |-> st, ba |-> st, one |-> st]

\* the first call of each order, and the one call with both batches
MergeFirst ==
    /\ trial.stage = "start"
    /\ trial' = [trial EXCEPT !.stage = "first",
                              !.ab = write_to_csv(@, trial.a),
                              !.ba = write_to_csv(@, trial.b),
                              !.one = write_to_csv(@, trial.a \o trial.b)]
    /\ UNCHANGED <<mainVars, limiterVars, processorVars, fileVars, threadVars,
                   oversleep, supply, catalog, crashed, file0, landed, after_flag>>

\* the second call of each order
MergeSecond ==
    /\ trial.stage = "first"
    /\ trial' = [trial EXCEPT !.stage = "second",
                              !.ab = write_to_csv(@, trial.b),
                              !.ba = write_to_csv(@, trial.a)]
    /\ UNCHANGED <<mainVars, limiterVars, processorVars, fileVars, threadVars,
                   oversleep, supply, catalog, crashed, file0, landed, after_flag>>

NextOrder ==
    \/ MergeFirst
    \/ MergeSecond

SpecOrder == InitOrder /\ [][NextOrder]_vars

----------------------------------------------------------------------------
(* Helpers of the properties *)

AllTerminal == \A w \in Workers : pc[w] \in Terminal
NoneFailed == \A w \in Workers : pc[w] # "failed"

RECURSIVE SumTo(_, _)
SumTo(f, n) == IF n = 0 THEN 0 ELSE f[n] + SumTo(f, n - 1)

\* rows the run has added to the output file
RowsWritten == Len(output_file.rows) - Len(file0.rows)

IsSorted(rows) ==
    \A i \in 1..(Len(rows) - 1) : StrLeq(KeyOf(rows[i]), KeyOf(rows[i + 1]))

\* the event times of the model's records
EventTimes == {flatten_dict(Catalog[i])[SortKey] : i \in CatalogIds}
                 \cup {KeyOf(EarlierFile.rows[i]) : i \in 1..Len(EarlierFile.rows)}

RowsWithKey(rows, k) == Cardinality({i \in 1..Len(rows) : KeyOf(rows[i]) = k})

LandedWithKey(k) ==
    LET f == [i \in CatalogIds |->
                 IF flatten_dict(Catalog[i])[SortKey] = k THEN landed[i] ELSE 0]
    IN  SumTo(f, Len(Catalog))

\* the complete file a merge of worker w's batch into the present output file
\* makes: every row of both, in order, under the header the writer is given
PostMerge(w) ==
    IF output_file.exists
    THEN LET m == MergeRows(ReadCsv(output_file), items[w])
         IN  WriteCsv(MergedFieldnames(fieldnames, m), m)
    ELSE WriteCsv(sorted(DOMAIN items[w][1]), items[w])

----------------------------------------------------------------------------
(* The merge writer *)

\* C1: with the output file absent or sorted by event time at process start and
\* every record carrying a fixed-width event time, the rows of the output file
\* are in non-decreasing order of event time in every state, whatever the
\* number of merges landed and the order in which the workers landed them.
C1_OutputSorted ==
    output_file.exists =>
        /\ SortKey \in Range(output_file.header)
        /\ IsSorted(output_file.rows)

\* C1 witness: both workers are done, every record they were served has landed
\* on top of the earlier file, and both event times of the catalog are there.
C1_Witness ==
    /\ AllTerminal /\ NoneFailed
    /\ file0 = EarlierFile
    /\ RowsWritten = 2 * MaxBatches
    /\ landed[1] > 0 /\ landed[2] > 0

\* C2: in every state the output file holds, for each event time, exactly the
\* rows the file had at process start plus one row for every record of every
\* batch whose merge has returned: no row is lost and none is written twice,
\* whatever the interleaving of the workers' merges.
C2_NoLostUpdate ==
    \A k \in EventTimes :
        RowsWithKey(output_file.rows, k)
            = RowsWithKey(file0.rows, k) + LandedWithKey(k)

\* C2 witness: the two workers each landed their batches, in one run, and one
\* of them landed a batch while the other was inside its own merge call.
C2_Witness ==
    /\ \E w \in Workers, v \in Workers :
          /\ w # v
          /\ pc[w] = "lock" /\ pc[v] = "count"
          /\ items[w] # << >>
    /\ SumTo(landed, Len(Catalog)) >= 2

\* C3: the output file changes only in the replace step of a merge, and then to
\* the complete merge of the file as it is at that moment with the batch; no
\* other step, and no step after the process is killed, changes it. So the
\* file is always the complete version before a merge or the one after it.
C3_AtomicReplace ==
    [][ /\ (output_file' # output_file =>
              \E w \in Workers : /\ pc[w] = "replace"
                                  /\ pc'[w] = "count"
                                  /\ output_file' = PostMerge(w))
        /\ (crashed' => output_file' = output_file) ]_vars

\* C3 witness: the process was killed after a worker wrote the temporary file
\* and before it replaced the output file, which still is what it was.
C3_Witness ==
    /\ crashed
    /\ \E w \in Workers : /\ pc[w] = "replace"
                           /\ temp_file = PostMerge(w)
                           /\ output_file.exists
                           /\ output_file # temp_file
                           /\ Len(temp_file.rows) > Len(output_file.rows)

\* C10: after every merge the header of the output file holds every field name
\* of every record merged since process start, so no field of a merged record
\* is dropped.
C10_HeaderComplete ==
    output_file.exists =>
        \A i \in CatalogIds :
            landed[i] > 0 => DOMAIN Catalog[i] \subseteq Range(output_file.header)

----------------------------------------------------------------------------
(* The interval computation *)

\* C7: for every window start <= end in whole seconds and every worker count
\* N >= 1, windows shorter than N seconds included, main() computes exactly N
\* intervals, each with start <= end, the first starting at the window's start,
\* the last ending at the window's end, each ending where the next starts.
C7_PartitionCorrect ==
    main_pc = "submit" =>
        LET n == config.num_threads
        IN  /\ DOMAIN intervals = 1..n
            /\ \A i \in 1..n : intervals[i][1] <= intervals[i][2]
            /\ intervals[1][1] = config.start
            /\ intervals[n][2] = config.end
            /\ \A i \in 1..(n - 1) : intervals[i][2] = intervals[i + 1][1]

\* C7 witness: a window of two seconds cut for four workers.
C7_Witness ==
    /\ main_pc = "submit"
    /\ config.num_threads = 4
    /\ config.end - config.start = 2
    /\ intervals[4] = <<config.start, config.end>>

----------------------------------------------------------------------------
(* The result cap and the page loop *)

\* C5: with a cap C > 0, N workers and pages of at most P items, a run that has
\* ended has written fewer than C + N*P rows; and if the intervals together
\* hold at least C records and no worker failed, it has written at least C.
C5_BoundedOvershoot ==
    (config.max_results > 0 /\ AllTerminal) =>
        /\ RowsWritten < config.max_results + NumThreads * config.results_per_call
        /\ (NoneFailed /\ SumTo(supply, NumThreads) >= config.max_results
                => RowsWritten >= config.max_results)

\* C5 witness: a capped run has ended without a failure and overshot the cap by
\* a page that was in flight when the flag was raised.
C5_Witness ==
    /\ config.max_results > 0
    /\ AllTerminal /\ NoneFailed
    /\ max_detections_reached
    /\ RowsWritten > config.max_results
    /\ \E w \in Workers : after_flag[w] = 1

\* C6: a worker enters a page request only from the loop test and only having
\* read the flag as unset there, its first request included; a worker that
\* reads the flag as set leaves the loop; and once the flag is set each worker
\* lands at most one more page, at most N - 1 pages in all.
C6_CooperativeStop ==
    /\ [](/\ \A w \in Workers : after_flag[w] <= 1
          /\ SumTo(after_flag, NumThreads) <= NumThreads - 1)
    /\ [][\A w \in Workers :
            /\ (pc'[w] = "req" /\ pc[w] # "req")
                   => (pc[w] = "loop" /\ ~max_detections_reached)
            /\ (pc[w] = "loop" /\ max_detections_reached /\ pc'[w] # pc[w])
                   => pc'[w] = "done"]_vars

\* C6 witness: the flag is set, a worker landed after that the page it had in
\* flight, and it then stopped although its interval held more records.
C6_Witness ==
    /\ max_detections_reached
    /\ AllTerminal /\ NoneFailed
    /\ \E w \in Workers : /\ after_flag[w] = 1
                           /\ params[w] + Len(data[w].ids) < supply[w]

\* C8: when at least one worker has failed, the exit status of the run is not
\* zero; it is zero only when no worker failed.
C8_FailureSurfaced ==
    main_pc = "exit" =>
        ((\E w \in Workers : pc[w] = "failed") => exit_code # 0)

\* C9: the step in which a worker fails (a request that raises, an I/O error in
\* the merge) changes nothing of any other worker, does not raise the limit
\* flag, leaves the output file and the counters as they are, and leaves no
\* lock held by the failed worker; a failed worker never holds a lock.
C9_FailureIsolated ==
    /\ [](\A w \in Workers :
            pc[w] = "failed" =>
                (rl_lock # w /\ counter_lock # w /\ output_lock # w))
    /\ [][\A w \in Workers :
            (pc'[w] = "failed" /\ pc[w] # "failed") =>
                /\ \A v \in Workers \ {w} :
                      /\ pc'[v] = pc[v]
                      /\ params'[v] = params[v]
                      /\ data'[v] = data[v]
                      /\ items'[v] = items[v]
                      /\ merged_rows'[v] = merged_rows[v]
                /\ max_detections_reached' = max_detections_reached
                /\ total_detections' = total_detections
                /\ output_file' = output_file
                /\ crashed' = crashed]_vars

\* C9 witness: one worker failed, the flag is not set, and the other worker
\* went on: it fetched and landed a second page and ended on its own.
C9_Witness ==
    \E w \in Workers, v \in Workers :
        /\ pc[w] = "failed"
        /\ pc[v] = "done"
        /\ params[v] > 0
        /\ ~max_detections_reached
        /\ RowsWritten = supply[v]
        /\ supply[v] = MaxSupply

----------------------------------------------------------------------------
(* The rate limiter *)

\* C4: of the timestamps the limiter has recorded, no more than minute_limit
\* lie within any span of less than 60 seconds and no more than hour_limit
\* within any span of less than 3600 seconds.
C4_RateCapSafe ==
    \A i \in 1..Len(admitted), j \in 1..Len(admitted) :
        i <= j =>
            /\ (admitted[j] - admitted[i] < MinuteWindow
                    => j - i + 1 <= config.rate_limit_minute)
            /\ (admitted[j] - admitted[i] < HourWindow
                    => j - i + 1 <= config.rate_limit_hour)

----------------------------------------------------------------------------
(* The end of a sub-range *)

\* C11: a worker that has its response and was not stopped by the cap asks for
\* another page exactly when the response carries a continuation link, the page
\* was full (as many items as 'top' asked for) and the limit flag is not set;
\* in every other case, a short page with a continuation link included, it
\* ends and requests no further page.
C11_ExhaustionRule ==
    [][\A w \in Workers :
          (pc[w] = "next" /\ pc'[w] # "next") =>
              (pc'[w] = "loop" <=>
                  /\ data[w].nextLink.present
                  /\ Len(data[w].ids) = config.results_per_call
                  /\ ~max_detections_reached)]_vars

----------------------------------------------------------------------------
(* The merge as a function of its batches *)

\* C12: from a sorted starting file, merging batch A and then batch B, merging
\* B and then A, and merging the two as one batch leave the same rows in the
\* same order (hence the same multiset of rows), records of equal event time
\* in A and B included.
C12_OrderIndependent ==
    (trial.stage = "second" /\ file0.exists) =>
        /\ trial.ab.file.rows = trial.ba.file.rows
        /\ trial.ab.file.rows = trial.one.file.rows

----------------------------------------------------------------------------
(* The limits of the limiter *)

\* C13: a configuration whose minute or hour limit is zero or negative is
\* rejected when the limiter is constructed: main() ends there with a non-zero
\* status, no worker is started and wait() is never run under such a limit.
C13_CapsRejected ==
    (config.rate_limit_minute <= 0 \/ config.rate_limit_hour <= 0) =>
        /\ main_pc \in {"start", "exit"}
        /\ (main_pc = "exit" => exit_code = 1)
        /\ \A w \in Workers : pc[w] = "idle"

----------------------------------------------------------------------------
(* A merge that fails *)

\* C14: while a worker is inside the critical section of a merge nobody else
\* changes the output file, and the step in which its merge fails (reading the
\* file, merging, writing the temporary file, replacing) leaves the output
\* file, total_detections and the limit flag as they are, counts nothing as
\* landed, releases output_lock and ends the worker as failed, for good.
C14_MergeFailureClean ==
    [][\A w \in Workers :
          /\ (pc[w] \in {"read", "temp", "replace"} /\ output_file' # output_file)
                 => pc'[w] = "count"
          /\ (pc[w] \in {"read", "temp", "replace"} /\ pc'[w] = "failed") =>
                 /\ output_lock = w
                 /\ output_lock' = Free
                 /\ output_file' = output_file
                 /\ total_detections' = total_detections
                 /\ max_detections_reached' = max_detections_reached
                 /\ landed' = landed
          /\ (pc[w] = "failed" => pc'[w] = "failed")]_vars

\* C14 witness: a worker failed inside the merge of its first page, nothing of
\* that page is in the file or in the count, and its sibling then merged and
\* counted every record of its own interval.
C14_Witness ==
    \E w \in Workers, v \in Workers :
        /\ pc[w] = "failed" /\ params[w] = 0 /\ items[w] # << >>
        /\ pc[v] = "done" /\ supply[v] = MaxSupply
        /\ RowsWritten = supply[v]
        /\ total_detections = supply[v]
        /\ output_lock = Free

----------------------------------------------------------------------------
(* Sleeping in the limiter *)

\* C15: a caller of wait() that has to sleep does not hold the limiter's lock
\* while it sleeps, so another caller can do its own bookkeeping meanwhile;
\* and a caller that wakes checks both windows again, so that it records its
\* request only when neither deque is then over its limit.
C15_IndependentSleep ==
    /\ [](\A w \in Workers : pc[w] = "sleep" => rl_lock # w)
    /\ [][\A w \in Workers :
            (pc[w] = "sleep" /\ pc'[w] = "get") =>
                /\ Len(minute_requests') <= config.rate_limit_minute
                /\ Len(hour_requests') <= config.rate_limit_hour]_vars

----------------------------------------------------------------------------
(* Ties in the merge *)

RECURSIVE StableMerge(_, _, _)
\* rows is an interleaving of old and new that keeps the order of each, in
\* which no new row stands before an old row of the same event time
StableMerge(old, new, rows) ==
    IF rows = << >> THEN old = << >> /\ new = << >>
    ELSE \/ /\ old # << >>
            /\ Head(rows) = Head(old)
            /\ StableMerge(Tail(old), new, Tail(rows))
         \/ /\ new # << >>
            /\ Head(rows) = Head(new)
            /\ \A i \in 1..Len(old) : KeyOf(old[i]) # KeyOf(Head(new))
            /\ StableMerge(old, Tail(new), Tail(rows))

\* C16: every merge leaves the rows the file had in the order they had, and
\* puts a new record behind every existing row of the same event time (rows
\* are compared as written under the header of the merged file).
C16_StableTies ==
    [][output_file' # output_file =>
          \E w \in Workers :
              /\ pc[w] = "replace"
              /\ StableMerge(WriteCsv(output_file'.header, output_file.rows).rows,
                             WriteCsv(output_file'.header, items[w]).rows,
                             output_file'.rows)]_vars

\* C16 witness: a merge has put a record behind the row of the earlier file
\* that has the same event time and other cells.
C16_Witness ==
    /\ file0 = EarlierFile
    /\ \E w \in Workers :
          /\ pc[w] = "count"
          /\ Len(items[w]) = 1
          /\ KeyOf(items[w][1]) = KeyOf(EarlierFile.rows[2])
          /\ output_file.rows =
                EarlierFile.rows \o WriteCsv(EarlierFile.header, items[w]).rows
          /\ output_file.rows[3] # output_file.rows[2]

----------------------------------------------------------------------------
(* Termination *)

\* C17: in a run that is not killed, whose requests all return or raise and
\* whose sub-ranges hold finitely many records, under fair scheduling every
\* worker that was started ends (done or failed) and main(), which waits for
\* them all, ends too; a run without a token ends at once.
C17_RunTerminates ==
    /\ <>(main_pc = "exit")
    /\ (config.api_token_ok => <>AllTerminal)
    /\ [](main_pc = "exit" /\ exit_code = 0 => AllTerminal)

\* C17 witness: main() has ended after both workers went through several
\* pages, one of them having slept in the limiter, and none failed.
C17_Witness ==
    /\ main_pc = "exit" /\ exit_code = 0
    /\ AllTerminal /\ NoneFailed
    /\ request_count >= 3
    /\ now > 0
    /\ \A w \in Workers : supply[w] > 0 /\ params[w] > 0

----------------------------------------------------------------------------
(* The limiter lets every caller through *)

\* C18: with both limits at least 1, every call of wait() returns, and the
\* step in which it returns appends one timestamp, the time then read, to each
\* deque; a caller sleeps only when a deque has reached its limit, for the
\* time left until the oldest entry of such a deque is a full window old,
\* and the lock of the limiter is held from one step to the next only by
\* such a sleeper.
C18_LimiterLive ==
    /\ \A w \in Workers : [](pc[w] \in {"wait", "sleep"} => <>(pc[w] = "get"))
    /\ [][\A w \in Workers :
            (pc[w] \in {"wait", "sleep"} /\ pc'[w] = "get") =>
                LET t == current_time'[w]
                IN  /\ minute_requests' = Append(Evict(minute_requests, t, MinuteWindow), t)
                    /\ hour_requests' = Append(Evict(hour_requests, t, HourWindow), t)
                    /\ admitted' = Append(admitted, t)]_vars
    /\ [](\A w \in Workers :
            pc[w] = "sleep" =>
                /\ wait_time[w] > 0
                /\ \/ /\ Len(minute_requests) >= config.rate_limit_minute
                      /\ wait_time[w] = MinuteWindow - (current_time[w] - Head(minute_requests))
                   \/ /\ Len(hour_requests) >= config.rate_limit_hour
                      /\ wait_time[w] = HourWindow - (current_time[w] - Head(hour_requests)))
    /\ [](rl_lock # Free => pc[rl_lock] = "sleep")

\* C18 witness: one caller has slept for the hour window and returned while
\* the other waits for the lock of the limiter.
C18_Witness ==
    \E w \in Workers, v \in Workers :
        /\ w # v
        /\ pc[w] = "get" /\ wait_time[w] > MinuteWindow
        /\ current_time[w] >= admitted[1] + HourWindow
        /\ admitted[Len(admitted)] = current_time[w]
        /\ pc[v] = "wait"

----------------------------------------------------------------------------
(* The counters *)

\* C19: total_detections never exceeds the number of rows the run has added to
\* the output file, and equals it whenever no worker stands between its
\* finished merge and the counting of that page; the limit flag, once set,
\* stays set, and it is set only with a cap that total_detections has reached.
C19_Accounting ==
    /\ [](total_detections <= RowsWritten)
    /\ []((\A w \in Workers : pc[w] # "count") => total_detections = RowsWritten)
    /\ [](max_detections_reached =>
            (config.max_results > 0 /\ total_detections >= config.max_results))
    /\ [][max_detections_reached => max_detections_reached']_vars

\* C19 witness: the flag is set and a worker that has landed a page after that
\* has not counted it yet.
C19_Witness ==
    /\ max_detections_reached
    /\ \E w \in Workers : pc[w] = "count" /\ after_flag[w] = 1
    /\ total_detections < RowsWritten
    /\ total_detections > config.max_results

----------------------------------------------------------------------------
(* The locks *)

\* the locks worker w holds
LocksHeld(w) ==
    {l \in {"rl_lock", "counter_lock", "output_lock"} :
        \/ (l = "rl_lock" /\ rl_lock = w)
        \/ (l = "counter_lock" /\ counter_lock = w)
        \/ (l = "output_lock" /\ output_lock = w)}

\* C20: a worker never holds two of the three locks at once; it holds a lock
\* only inside the block that took it (the limiter's while it sleeps in wait(),
\* the counter's while it counts a page, the output file's inside the merge)
\* and none once it has ended, normally or with an error; and as long as the
\* run is neither over nor killed, main() or some worker can take a step.
C20_LockDiscipline ==
    /\ \A w \in Workers :
          /\ Cardinality(LocksHeld(w)) <= 1
          /\ (rl_lock = w => pc[w] = "sleep")
          /\ (counter_lock = w => pc[w] = "flag")
          /\ (output_lock = w => pc[w] \in {"read", "temp", "replace"})
          /\ (pc[w] \in Terminal => LocksHeld(w) = {})
    /\ (~crashed /\ main_pc # "exit") => ENABLED NextLive

\* C20 witness: one worker sleeps in the limiter with its lock while the other
\* is inside a merge with the lock of the output file, a page having landed
\* before.
C20_Witness ==
    /\ rl_lock # Free /\ output_lock # Free
    /\ rl_lock # output_lock
    /\ counter_lock = Free
    /\ RowsWritten > 0

====
